---- MODULE Spec2Model ----
(***************************************************************************)
(* Hangfire prioritization engine (src/App.tsx, first MainApp, lines       *)
(* 1-1781): the daily point budget, per-item voting with day-bucketed      *)
(* history, and the sorted / frozen list view.                             *)
(*                                                                         *)
(* One action is one event handler run to completion followed by the React *)
(* commit of the state setters it called and by the persist effect         *)
(* (lines 415-429) of that commit.  React batches the setters of one       *)
(* handler into one commit and re-creates every callback whose dependency  *)
(* list changed before the next event is delivered, so a handler always    *)
(* closes over the state of the latest commit.                             *)
(*                                                                         *)
(* Day keys: getTodayKey returns the ISO string yyyy-mm-dd of the UTC day. *)
(* Those strings are fixed-width, so === and >= on them coincide with = and *)
(* >= on the day number; a day key is modelled as the day number.          *)
(***************************************************************************)
EXTENDS Integers, Sequences, FiniteSets, TLC

\* Program constants
MAX_DAILY_POINTS == 15
UnfreezeDelayMs == 1000

\* Bounds of the exploration
MaxItems == 2
MaxDay == 2
MaxVotes == 3
StartBudget == 2
TickMs == 500
MaxTimers == 2
SortPrices == {1, 3}               \* the finite prices of items
OptionPrices == {2, 4}             \* the prices of options
MaxHistory == 2                    \* entries of a history drawn for the badge
TrendDates == {-9, -6, -5, -1, 1}  \* their day keys: D-10, D-7, D-6, D-2, D
TrendPoints == {-1, 4, 5, 6}       \* their deltas

VARIABLES
  items,            \* WishlistItem[]            (line 233)
  remainingPoints,  \* number                    (line 234)
  lastResetDate,    \* day key                   (line 235)
  hidePurchased,    \* boolean                   (line 244)
  sortMode,         \* 'points'|'date'|'price'   (line 245)
  selectedItem,     \* WishlistItem | null, as a sequence of length <= 1 (247)
  isSortingFrozen,  \* boolean                   (line 260)
  frozenItems,      \* WishlistItem[]            (line 261)
  timers,           \* pending setTimeout callbacks: ms left until each is due
  stored,           \* AsyncStorage[STORAGE_KEY]: persisted snapshot or NoSnapshot
  loaded,           \* the mount-time load effect has run
  today,            \* the clock's current day
  nextId,           \* Date.now() at the next item creation
  votes,            \* the votes cast so far (bounds the exploration)
  last              \* the handler that produced this state, with its pre-state

vars == <<items, remainingPoints, lastResetDate, hidePurchased, sortMode,
          selectedItem, isSortingFrozen, frozenItems, timers, stored, loaded,
          today, nextId, votes, last>>

\* AsyncStorage[STORAGE_KEY] is a text; it is modelled by the JSON value it
\* denotes, and the two texts that denote none by two records of their own:
\* the key was never written (getItem returns null) ...
NoSnapshot == [items |-> <<>>, remainingPoints |-> -1, lastResetDate |-> -1]

\* ... and a text JSON.parse throws on
Unparsable == [items |-> <<>>, remainingPoints |-> -2, lastResetDate |-> -2]

\* the number parseFloat returns for "Infinity" or "1e999": above every
\* finite price
Infinity == 1000

\* the JSON value null; a field that is missing reads as undefined, and ??
\* treats the two alike
JsonNull == -9

\* JSON.stringify of a number: the non-finite ones are written as null
jsonNumber(x) == IF x = Infinity THEN JsonNull ELSE x

\* JSON.stringify of the persisted state (line 423), as the JSON value that
\* JSON.parse reads back from the text.  The prices, of items and of their
\* options, are the numbers of the state that can be non-finite (lines
\* 927-932 and 993-998 accept them).
stringifyOptions(o) ==
  IF o = <<>> THEN <<>>
  ELSE << [k \in DOMAIN o[1] |-> [o[1][k] EXCEPT !.price = jsonNumber(@)]] >>

stringify(data) ==
  [data EXCEPT !.items =
     [k \in DOMAIN data.items |->
        [data.items[k] EXCEPT !.price = jsonNumber(@),
                              !.options = stringifyOptions(@)]]]

Max(a, b) == IF a >= b THEN a ELSE b
Min(a, b) == IF a <= b THEN a ELSE b

getTodayKey == today

seedItems == <<>>

----------------------------------------------------------------------------
\* Helpers over item lists

Ids(list) == [k \in DOMAIN list |-> list[k].id]

HasId(list, id) == \E k \in DOMAIN list : list[k].id = id

\* Array.prototype.find: the first element with that id (call only if HasId)
Find(list, id) ==
  list[CHOOSE k \in DOMAIN list :
         /\ list[k].id = id
         /\ \A j \in 1..(k - 1) : list[j].id # id]

\* sourceItems.filter(i => !i.isPurchased), line 268
RECURSIVE notPurchased(_)
notPurchased(list) ==
  IF list = <<>> THEN <<>>
  ELSE IF Head(list).isPurchased THEN notPurchased(Tail(list))
       ELSE <<Head(list)>> \o notPurchased(Tail(list))

\* index of the first history entry dated t, 0 if none (find, lines 489, 546)
todayEntry(h, t) ==
  IF \E k \in DOMAIN h : h[k].date = t
  THEN CHOOSE k \in DOMAIN h :
         /\ h[k].date = t
         /\ \A j \in 1..(k - 1) : h[j].date # t
  ELSE 0

----------------------------------------------------------------------------
\* Voting: the state updaters of addPoint and removePoint

\* addPointItem that always pushes a new entry for today
addPointItemPush(it, t) ==
  [it EXCEPT !.points = @ + 1,
             !.pointHistory = Append(@, [date |-> t, points |-> 1])]

\* the map callback of addPoint for the voted item (lines 487-496)
addPointItem(it, t) ==
  LET h == it.pointHistory
      k == todayEntry(h, t)
  IN [it EXCEPT !.points = @ + 1,
                !.pointHistory = IF k > 0
                                 THEN [h EXCEPT ![k].points = @ + 1]
                                 ELSE Append(h, [date |-> t, points |-> 1])]

\* addPointItems without the budget test of line 481
addPointItemsUnchecked(prev, id, rp, t) ==
  [k \in DOMAIN prev |->
     IF prev[k].id = id THEN addPointItem(prev[k], t) ELSE prev[k]]

\* the setItems updater of addPoint (lines 480-509); rp is the handler's
\* closed-over remainingPoints
addPointItems(prev, id, rp, t) ==
  IF rp <= 0 THEN prev
  ELSE [k \in DOMAIN prev |->
          IF prev[k].id = id THEN addPointItem(prev[k], t) ELSE prev[k]]

\* line 510
newRemainingPoints(rp) == IF rp > 0 THEN rp - 1 ELSE rp

\* the map callback of removePoint for the voted item (lines 544-553)
removePointItem(it, t) ==
  LET h == it.pointHistory
      k == todayEntry(h, t)
  IN [it EXCEPT !.points = Max(0, @ - 1),
                !.pointHistory = IF k > 0
                                 THEN [h EXCEPT ![k].points = Max(0, @ - 1)]
                                 ELSE Append(h, [date |-> t, points |-> -1])]

\* the setItems updater of removePoint (lines 536-566)
removePointItems(prev, id, t) ==
  IF ~HasId(prev, id) \/ Find(prev, id).points <= 0 THEN prev
  ELSE [k \in DOMAIN prev |->
          IF prev[k].id = id THEN removePointItem(prev[k], t) ELSE prev[k]]

\* refundPoints that refunds nothing
refundPointsNone(p) == p

\* refundPoints without the cap
refundPointsUncapped(p) == p + 1

\* the setRemainingPoints updater of removePoint (line 567)
refundPoints(p) == IF p < MAX_DAILY_POINTS THEN p + 1 ELSE p

\* freezesOn that freezes under every sort mode
freezesOnAny(mode) == TRUE

\* a vote freezes the view and arms the unfreeze timer only under the points
\* sort (lines 475, 522, 531, 572)
freezesOn(mode) == mode = "points"

\* History entries are objects shared by every copy of an item: the voting
\* callbacks copy the history array ([...it.pointHistory]) but mutate the
\* entry found in it in place (lines 491, 548), so an older copy of the item
\* (in frozenItems or selectedItem) sees the new value of every entry its
\* own, shorter or equal, array holds.  snap is a list of older copies.
shareEntries(snap, live) ==
  [k \in DOMAIN snap |->
     IF HasId(live, snap[k].id)
     THEN LET lh == Find(live, snap[k].id).pointHistory
              n == Min(Len(snap[k].pointHistory), Len(lh))
          IN [snap[k] EXCEPT !.pointHistory =
                [j \in 1..Len(snap[k].pointHistory) |->
                   IF j <= n THEN lh[j] ELSE snap[k].pointHistory[j]]]
     ELSE snap[k]]

----------------------------------------------------------------------------
\* Options and the display projection

\* item.options || [] (lines 640, 679)
optionsOf(item) == IF item.options = <<>> THEN <<>> ELSE item.options[1]

OptionIds(item) == {optionsOf(item)[k].id : k \in DOMAIN optionsOf(item)}

\* getCurrentDisplayItem (lines 621-635): the fields shown come from the
\* selected option when selectedOptionId names an option of the item
getCurrentDisplayItem(item) ==
  IF item.options # <<>> /\ item.selectedOptionId # 0
     /\ item.selectedOptionId \in OptionIds(item)
  THEN LET opts == optionsOf(item)
           selectedOption ==
             opts[CHOOSE k \in DOMAIN opts :
                    /\ opts[k].id = item.selectedOptionId
                    /\ \A j \in 1..(k - 1) : opts[j].id # item.selectedOptionId]
       IN [item EXCEPT !.name = selectedOption.name,
                       !.price = selectedOption.price,
                       !.imageUrl = selectedOption.imageUrl]
  ELSE item

----------------------------------------------------------------------------
\* The trending badge

\* the loop of lines 66-71 over the entries of a history
RECURSIVE sumSince(_, _)
sumSince(h, key) ==
  IF h = <<>> THEN 0
  ELSE (IF Head(h).date >= key THEN Head(h).points ELSE 0)
       + sumSince(Tail(h), key)

\* lines 61-63: the day key of the instant 7 * 24 hours before now.  Day keys
\* are UTC days, so that instant lies on the seventh day before today.
sevenDaysAgoKey == getTodayKey - 7

\* getWeeklyPoints (lines 56-74); a missing history is the empty one
getWeeklyPoints(item) ==
  IF item.pointHistory = <<>> THEN 0
  ELSE sumSince(item.pointHistory, sevenDaysAgoKey)

\* getTrendingStatus with strict thresholds
getTrendingStatusStrict(item) ==
  LET weeklyPoints == getWeeklyPoints(item)
  IN IF weeklyPoints > 10 THEN "hot"
     ELSE IF weeklyPoints > 5 THEN "trending"
     ELSE "none"

\* getTrendingStatus (lines 76-81)
getTrendingStatus(item) ==
  LET weeklyPoints == getWeeklyPoints(item)
  IN IF weeklyPoints >= 10 THEN "hot"
     ELSE IF weeklyPoints >= 5 THEN "trending"
     ELSE "none"

----------------------------------------------------------------------------
\* The list view

sortKey(it, mode) ==
  CASE mode = "points" -> it.points
    [] mode = "date" -> it.dateAdded
    [] OTHER -> IF it.price = JsonNull THEN 0 ELSE it.price  \* null - x is 0 - x

\* arr.sort((a, b) => key(b) - key(a)): stable, descending
RECURSIVE sortDesc(_, _)
sortDesc(list, mode) ==
  IF list = <<>> THEN <<>>
  ELSE LET n == Len(list)
           x == list[n]
           s == sortDesc(SubSeq(list, 1, n - 1), mode)
           \* x goes after every element whose key is >= its own
           p == Cardinality({k \in DOMAIN s : sortKey(s[k], mode) >= sortKey(x, mode)})
       IN SubSeq(s, 1, p) \o <<x>> \o SubSeq(s, p + 1, Len(s))

\* the useMemo of lines 265-274, as a function of the state it reads
sortedItemsOf(its, hide, mode, frozen, fits) ==
  LET sourceItems == IF frozen THEN fits ELSE its
      filtered == IF hide THEN notPurchased(sourceItems) ELSE sourceItems
  IN sortDesc(filtered, mode)

sortedItems == sortedItemsOf(items, hidePurchased, sortMode, isSortingFrozen, frozenItems)

----------------------------------------------------------------------------
\* Initial state: the useState initialisers (lines 233-261) at mount, before
\* the load effect has read the storage.  The storage holds nothing (first
\* start) or the snapshot an earlier session saved today or the day before:
\* one item, created and upvoted once on day 0, and StartBudget points left.

SeedItem ==
  [id |-> 1, name |-> 0, price |-> 0, imageUrl |-> 0, points |-> 1,
   dateAdded |-> 1, isPurchased |-> FALSE, datePurchased |-> 0,
   options |-> <<>>, selectedOptionId |-> 0,
   pointHistory |-> <<[date |-> 0, points |-> 1]>>]

InitialStores ==
  {NoSnapshot} \cup
  {[items |-> <<SeedItem>>, remainingPoints |-> StartBudget, lastResetDate |-> d] :
     d \in {0, 1}}

NoOp == [op |-> "init", id |-> 0, items |-> <<>>,
         remainingPoints |-> 0, lastResetDate |-> 0, frozen |-> FALSE,
         timers |-> <<>>, shown |-> <<>>, result |-> <<>>,
         raw |-> <<>>, saved |-> <<>>]

Init ==
  /\ items = <<>>
  /\ remainingPoints = MAX_DAILY_POINTS
  /\ today = 1
  /\ lastResetDate = getTodayKey
  /\ hidePurchased = FALSE
  /\ sortMode = "points"
  /\ selectedItem = <<>>
  /\ isSortingFrozen = FALSE
  /\ frozenItems = <<>>
  /\ timers = <<>>
  /\ stored \in InitialStores
  /\ loaded = FALSE
  /\ nextId = 2
  /\ votes = 0
  /\ last = NoOp

\* the persist effect (lines 415-429) of the commit that ends the step
persist ==
  stored' = stringify([items |-> items', remainingPoints |-> remainingPoints',
                       lastResetDate |-> lastResetDate'])

\* what a step records about itself: the handler, its argument, the state
\* and the list shown when it was called, and what it returned (if anything)
Called(op, id) ==
  /\ last' = [op |-> op, id |-> id, items |-> items,
              remainingPoints |-> remainingPoints,
              lastResetDate |-> lastResetDate, frozen |-> isSortingFrozen,
              timers |-> timers, shown |-> Ids(sortedItems), result |-> <<>>,
              raw |-> <<>>, saved |-> <<>>]
  /\ votes' = votes + (IF op \in {"addPoint", "removePoint"} THEN 1 ELSE 0)

\* the same for a step whose pre-state no property reads
DidTo(op, id) ==
  /\ last' = [NoOp EXCEPT !.op = op, !.id = id, !.frozen = isSortingFrozen]
  /\ votes' = votes

Did(op) == DidTo(op, 0)

----------------------------------------------------------------------------
\* Handlers

\* loadRemainingPoints that keeps the stored budget whatever its day
loadRemainingPointsKeep(parsed, t) ==
  IF parsed.remainingPoints = JsonNull THEN MAX_DAILY_POINTS
  ELSE parsed.remainingPoints

\* lines 345-349: the budget of a parsed snapshot
loadRemainingPoints(parsed, t) ==
  IF parsed.lastResetDate = t
  THEN IF parsed.remainingPoints = JsonNull THEN MAX_DAILY_POINTS
       ELSE parsed.remainingPoints
  ELSE MAX_DAILY_POINTS

\* the load effect (lines 337-364).  Its record keeps the text it read and
\* what the session before it, if any, held when it ended.
load ==
  /\ ~loaded
  /\ loaded' = TRUE
  /\ IF stored = Unparsable
     THEN \* catch (lines 359-364)
          /\ items' = seedItems
          /\ remainingPoints' = MAX_DAILY_POINTS
          /\ lastResetDate' = getTodayKey
     ELSE IF stored # NoSnapshot
     THEN /\ items' = stored.items
          /\ remainingPoints' = loadRemainingPoints(stored, getTodayKey)
          /\ lastResetDate' = getTodayKey
     ELSE /\ items' = seedItems
          /\ remainingPoints' = MAX_DAILY_POINTS
          /\ lastResetDate' = getTodayKey
  /\ persist
  /\ last' = [NoOp EXCEPT !.op = "load", !.raw = stored, !.saved = last.saved]
  /\ votes' = votes
  /\ UNCHANGED <<hidePurchased, sortMode, selectedItem, isSortingFrozen,
                 frozenItems, timers, today, nextId>>

\* resetNeeded that never asks for a reset
resetNeededNever(lrd, t) == FALSE

\* resetNeeded that always asks for one
resetNeededAlways(lrd, t) == TRUE

\* the test of line 331
resetNeeded(lrd, t) == lrd # t

\* checkAndResetDailyPoints (lines 329-335), run when the app becomes active
\* (lines 367-377)
checkAndResetDailyPoints ==
  /\ loaded
  /\ IF resetNeeded(lastResetDate, getTodayKey)
     THEN /\ remainingPoints' = MAX_DAILY_POINTS
          /\ lastResetDate' = getTodayKey
     ELSE UNCHANGED <<remainingPoints, lastResetDate>>
  /\ UNCHANGED <<items, hidePurchased, sortMode, selectedItem,
                 isSortingFrozen, frozenItems, timers, today,
                 nextId, loaded>>
  /\ persist
  /\ Called("checkAndResetDailyPoints", 0)

\* addPoint (lines 473-527)
addPoint(id) ==
  LET byPoints == freezesOn(sortMode)
      next == addPointItems(items, id, remainingPoints, getTodayKey)
  IN /\ isSortingFrozen' = IF byPoints THEN TRUE ELSE isSortingFrozen
     /\ frozenItems' = shareEntries(IF byPoints THEN items ELSE frozenItems, next)
     /\ items' = next
     /\ selectedItem' =
          IF /\ remainingPoints > 0
             /\ selectedItem # <<>>
             /\ selectedItem[1].id = id
             /\ HasId(next, id)
          THEN <<Find(next, id)>>
          ELSE shareEntries(selectedItem, next)
     /\ remainingPoints' = newRemainingPoints(remainingPoints)
     /\ timers' = IF byPoints THEN Append(timers, UnfreezeDelayMs) ELSE timers
     /\ UNCHANGED <<lastResetDate, hidePurchased, sortMode, today, nextId, loaded>>
     /\ persist

\* removePoint (lines 529-577)
removePoint(id) ==
  LET byPoints == freezesOn(sortMode)
      next == removePointItems(items, id, getTodayKey)
  IN /\ isSortingFrozen' = IF byPoints THEN TRUE ELSE isSortingFrozen
     /\ frozenItems' = shareEntries(IF byPoints THEN items ELSE frozenItems, next)
     /\ items' = next
     /\ selectedItem' =
          IF /\ next # items
             /\ selectedItem # <<>>
             /\ selectedItem[1].id = id
          THEN <<Find(next, id)>>
          ELSE shareEntries(selectedItem, next)
     /\ remainingPoints' = refundPoints(remainingPoints)
     /\ timers' = IF byPoints THEN Append(timers, UnfreezeDelayMs) ELSE timers
     /\ UNCHANGED <<lastResetDate, hidePurchased, sortMode, today, nextId, loaded>>
     /\ persist

\* saveNewItem (lines 990-1031): id and dateAdded are taken from the clock
\* at creation; a new item carries no pointHistory, read as [] by the voters,
\* no options and no selectedOptionId.  An optional field that is undefined
\* is 0 (imageUrl, datePurchased, selectedOptionId); options, an array or
\* undefined, is a sequence of length <= 1 holding the array.
saveNewItem(price) ==
  /\ nextId <= MaxItems
  /\ items' = <<[id |-> nextId, name |-> 0, price |-> price, imageUrl |-> 0,
                 points |-> 0, dateAdded |-> nextId, isPurchased |-> FALSE,
                 datePurchased |-> 0, options |-> <<>>,
                 selectedOptionId |-> 0, pointHistory |-> <<>>]>> \o items
  /\ nextId' = nextId + 1
  /\ UNCHANGED <<remainingPoints, lastResetDate, hidePurchased, sortMode,
                 selectedItem, isSortingFrozen, frozenItems, timers, today,
                 loaded>>
  /\ persist

\* prev.filter(it => it.id !== id), line 588
RECURSIVE withoutId(_, _)
withoutId(list, id) ==
  IF list = <<>> THEN <<>>
  ELSE IF Head(list).id = id THEN withoutId(Tail(list), id)
       ELSE <<Head(list)>> \o withoutId(Tail(list), id)

\* confirmDelete (lines 584-591), the Delete button of the alert pressed
confirmDelete(id) ==
  /\ items' = withoutId(items, id)
  /\ UNCHANGED <<remainingPoints, lastResetDate, hidePurchased, sortMode,
                 selectedItem, isSortingFrozen, frozenItems, timers, today,
                 nextId, loaded>>
  /\ persist

\* togglePurchased that keeps the purchase date when the flag is cleared
togglePurchasedKeepsDate(id) ==
  /\ items' = [k \in DOMAIN items |->
                 IF items[k].id # id THEN items[k]
                 ELSE [items[k] EXCEPT
                         !.isPurchased = ~items[k].isPurchased,
                         !.datePurchased = IF ~items[k].isPurchased
                                           THEN today ELSE @]]
  /\ UNCHANGED <<remainingPoints, lastResetDate, hidePurchased, sortMode,
                 selectedItem, isSortingFrozen, frozenItems, timers, today,
                 nextId, loaded>>
  /\ persist

\* togglePurchased (lines 593-603); datePurchased is the day of the toggle,
\* 0 when undefined
togglePurchased(id) ==
  /\ items' = [k \in DOMAIN items |->
                 IF items[k].id # id THEN items[k]
                 ELSE [items[k] EXCEPT
                         !.isPurchased = ~items[k].isPurchased,
                         !.datePurchased = IF ~items[k].isPurchased
                                           THEN today ELSE 0]]
  /\ UNCHANGED <<remainingPoints, lastResetDate, hidePurchased, sortMode,
                 selectedItem, isSortingFrozen, frozenItems, timers, today,
                 nextId, loaded>>
  /\ persist

\* the option list and the selection of an item after addOptionToItem
\* (lines 640-646): item.options?.length === 0 holds for an empty array, not
\* for options that are undefined
withOption(item, option) ==
  [item EXCEPT
     !.options = << Append(optionsOf(item), option) >>,
     !.selectedOptionId = IF item.options # <<>> /\ Len(item.options[1]) = 0
                          THEN option.id ELSE @]

\* addOptionToItem (lines 637-661)
addOptionToItem(itemId, option) ==
  /\ items' = [k \in DOMAIN items |->
                 IF items[k].id # itemId THEN items[k]
                 ELSE withOption(items[k], option)]
  /\ selectedItem' = IF selectedItem # <<>> /\ selectedItem[1].id = itemId
                     THEN <<withOption(selectedItem[1], option)>>
                     ELSE selectedItem
  /\ UNCHANGED <<remainingPoints, lastResetDate, hidePurchased, sortMode,
                 isSortingFrozen, frozenItems, timers, today, loaded>>
  /\ persist

\* saveNewOption (lines 925-965): the option's id is taken from the clock
saveNewOption(price) ==
  /\ selectedItem # <<>>
  /\ nextId' = nextId + 1
  /\ addOptionToItem(selectedItem[1].id,
                     [id |-> nextId, name |-> 1, price |-> price, imageUrl |-> 0])

\* selectOptionAsMain (lines 663-673)
selectOptionAsMain(itemId, optionId) ==
  /\ items' = [k \in DOMAIN items |->
                 IF items[k].id # itemId THEN items[k]
                 ELSE [items[k] EXCEPT !.selectedOptionId = optionId]]
  /\ selectedItem' = IF selectedItem # <<>> /\ selectedItem[1].id = itemId
                     THEN <<[selectedItem[1] EXCEPT !.selectedOptionId = optionId]>>
                     ELSE selectedItem
  /\ UNCHANGED <<remainingPoints, lastResetDate, hidePurchased, sortMode,
                 isSortingFrozen, frozenItems, timers, today, nextId, loaded>>
  /\ persist

\* (item.options || []).filter(opt => opt.id !== optionId), lines 678, 694
RECURSIVE withoutOption(_, _)
withoutOption(opts, optionId) ==
  IF opts = <<>> THEN <<>>
  ELSE IF Head(opts).id = optionId THEN withoutOption(Tail(opts), optionId)
       ELSE <<Head(opts)>> \o withoutOption(Tail(opts), optionId)

\* the item after deleteOption (lines 678-687)
afterDeleteOption(item, optionId) ==
  LET updatedOptions == withoutOption(optionsOf(item), optionId)
  IN [item EXCEPT
        !.options = << updatedOptions >>,
        !.selectedOptionId = IF @ = optionId
                             THEN (IF Len(updatedOptions) > 0
                                   THEN updatedOptions[1].id ELSE 0)
                             ELSE @]

\* deleteOption (lines 675-706)
deleteOption(itemId, optionId) ==
  /\ items' = [k \in DOMAIN items |->
                 IF items[k].id # itemId THEN items[k]
                 ELSE afterDeleteOption(items[k], optionId)]
  /\ selectedItem' = IF selectedItem # <<>> /\ selectedItem[1].id = itemId
                     THEN <<afterDeleteOption(selectedItem[1], optionId)>>
                     ELSE selectedItem
  /\ UNCHANGED <<remainingPoints, lastResetDate, hidePurchased, sortMode,
                 isSortingFrozen, frozenItems, timers, today, nextId, loaded>>
  /\ persist

\* updateItemImage (lines 708-775), once the image is chosen or removed: the
\* item is replaced by the copy held as selectedItem with the new imageUrl.
\* The callbacks close over the selectedItem of the press that opened the
\* alert; alert and picker cover the screen, so it is still the current one.
updateItemImage(itemId, uri) ==
  /\ selectedItem # <<>>
  /\ LET updatedItem == [selectedItem[1] EXCEPT !.imageUrl = uri]
     IN /\ items' = [k \in DOMAIN items |->
                       IF items[k].id = itemId THEN updatedItem ELSE items[k]]
        /\ selectedItem' = <<updatedItem>>
  /\ UNCHANGED <<remainingPoints, lastResetDate, hidePurchased, sortMode,
                 isSortingFrozen, frozenItems, timers, today, nextId, loaded>>
  /\ persist

\* saveItemEdit (lines 899-923); a blank price field gives price 0
saveItemEdit(name, price) ==
  /\ selectedItem # <<>>
  /\ items' = [k \in DOMAIN items |->
                 IF items[k].id = selectedItem[1].id
                 THEN [items[k] EXCEPT !.name = name, !.price = price]
                 ELSE items[k]]
  /\ selectedItem' = <<[selectedItem[1] EXCEPT !.name = name, !.price = price]>>
  /\ UNCHANGED <<remainingPoints, lastResetDate, hidePurchased, sortMode,
                 isSortingFrozen, frozenItems, timers, today, nextId, loaded>>
  /\ persist

\* openItemDetail (lines 605-607)
openItemDetail(item) ==
  /\ selectedItem' = <<item>>
  /\ UNCHANGED <<items, remainingPoints, lastResetDate, hidePurchased,
                 sortMode, isSortingFrozen, frozenItems, timers, stored,
                 today, nextId, loaded>>

\* closeItemDetail (lines 609-611)
closeItemDetail ==
  /\ selectedItem' = <<>>
  /\ UNCHANGED <<items, remainingPoints, lastResetDate, hidePurchased,
                 sortMode, isSortingFrozen, frozenItems, timers, stored,
                 today, nextId, loaded>>

\* the sort button (lines 1278-1280)
nextSortMode(m) ==
  IF m = "points" THEN "date" ELSE IF m = "date" THEN "price" ELSE "points"

\* the Include Purchased switch (line 1291): value is the new switch position
setHidePurchased(value) ==
  /\ hidePurchased' = ~value
  /\ UNCHANGED <<items, remainingPoints, lastResetDate, sortMode,
                 selectedItem, isSortingFrozen, frozenItems, timers, stored,
                 today, nextId, loaded>>

\* unfreezeTimeout that leaves the view frozen
unfreezeTimeoutKeeps ==
  /\ timers # <<>>
  /\ Head(timers) = 0
  /\ timers' = Tail(timers)
  /\ UNCHANGED <<items, remainingPoints, lastResetDate, hidePurchased,
                 sortMode, selectedItem, isSortingFrozen, frozenItems, stored,
                 today, nextId, loaded>>

\* the callback of the setTimeout armed by a vote (lines 523-525, 573-575)
unfreezeTimeout ==
  /\ timers # <<>>
  /\ Head(timers) = 0
  /\ timers' = Tail(timers)
  /\ isSortingFrozen' = FALSE
  /\ UNCHANGED <<items, remainingPoints, lastResetDate, hidePurchased,
                 sortMode, selectedItem, frozenItems, stored, today,
                 nextId, loaded>>

----------------------------------------------------------------------------
\* Environment: the clock

\* TickMs pass; a timer that is due runs before more time passes
Tick ==
  /\ loaded
  /\ \A k \in DOMAIN timers : timers[k] > 0
  /\ timers # <<>>
  /\ timers' = [k \in DOMAIN timers |-> Max(0, timers[k] - TickMs)]
  /\ Did("tick")
  /\ UNCHANGED <<items, remainingPoints, lastResetDate, hidePurchased,
                 sortMode, selectedItem, isSortingFrozen, frozenItems,
                 stored, today, nextId, loaded>>

\* midnight (UTC) passes
NextDay ==
  /\ loaded
  /\ today < MaxDay
  /\ today' = today + 1
  /\ Did("nextDay")
  /\ UNCHANGED <<items, remainingPoints, lastResetDate, hidePurchased,
                 sortMode, selectedItem, isSortingFrozen, frozenItems,
                 timers, stored, nextId, loaded>>

----------------------------------------------------------------------------
\* Events.  The list (FlatList over sortedItems, lines 1268-1275) is covered
\* by the detail modal while selectedItem is set (line 1402).

\* exploration bounds: the votes cast, and the timers pending when a vote
\* arms one more
VoteBoundOf(n) ==
  /\ votes < n
  /\ sortMode = "points" => Len(timers) < MaxTimers

VoteBound == VoteBoundOf(MaxVotes)

ListVisible == loaded /\ selectedItem = <<>>

\* disabled of the upvote buttons (lines 1158, 1503)
upvoteDisabled == remainingPoints <= 0

\* disabled of the downvote buttons (lines 1193, 1530); item is the copy the
\* button is rendered from
downvoteDisabled(item) ==
  item.points <= 0 \/ remainingPoints >= MAX_DAILY_POINTS

\* the upvote button of a list row (lines 1153-1158)
PressUpvoteWithin(n) ==
  \E k \in DOMAIN sortedItems :
    LET item == sortedItems[k]
    IN /\ ListVisible
       /\ ~upvoteDisabled
       /\ VoteBoundOf(n)
       /\ Called("addPoint", item.id)
       /\ addPoint(item.id)

PressUpvote == PressUpvoteWithin(MaxVotes)

\* the downvote button of a list row (lines 1188-1193)
PressDownvoteWithin(n) ==
  \E k \in DOMAIN sortedItems :
    LET item == sortedItems[k]
    IN /\ ListVisible
       /\ ~downvoteDisabled(item)
       /\ VoteBoundOf(n)
       /\ Called("removePoint", item.id)
       /\ removePoint(item.id)

PressDownvote == PressDownvoteWithin(MaxVotes)

\* the upvote button of the detail modal (lines 1501-1503)
DetailUpvote ==
  /\ loaded
  /\ selectedItem # <<>>
  /\ ~upvoteDisabled
  /\ VoteBound
  /\ Called("addPoint", selectedItem[1].id)
  /\ addPoint(selectedItem[1].id)

\* the downvote button of the detail modal (lines 1528-1530)
DetailDownvote ==
  /\ loaded
  /\ selectedItem # <<>>
  /\ ~downvoteDisabled(selectedItem[1])
  /\ VoteBound
  /\ Called("removePoint", selectedItem[1].id)
  /\ removePoint(selectedItem[1].id)

\* a list row pressed (line 1069)
PressRow ==
  \E k \in DOMAIN sortedItems :
    /\ ListVisible
    /\ Called("openItemDetail", sortedItems[k].id)
    /\ openItemDetail(sortedItems[k])

\* the back button of the detail modal (line 1415)
PressBack ==
  /\ loaded
  /\ selectedItem # <<>>
  /\ Called("closeItemDetail", selectedItem[1].id)
  /\ closeItemDetail

\* bounds of the exploration: the options an item is given, and the votes
\* cast around the detail modal
MaxOptions == 2
MaxDetailVotes == 1

DetailVisible == loaded /\ selectedItem # <<>>

\* Save of the add-option modal (line 1766), opened from the detail modal
PressSaveOption ==
  \E price \in OptionPrices :
    /\ loaded
    /\ selectedItem # <<>>
    /\ Len(optionsOf(selectedItem[1])) < MaxOptions
    /\ nextId <= MaxItems + MaxOptions
    /\ Called("addOptionToItem", selectedItem[1].id)
    /\ saveNewOption(price)

\* Select of an option card of the detail modal (lines 1574-1580): offered
\* for every option of selectedItem that is not its selected one
PressSelectOption ==
  /\ DetailVisible
  /\ \E k \in DOMAIN optionsOf(selectedItem[1]) :
       LET option == optionsOf(selectedItem[1])[k]
       IN /\ selectedItem[1].selectedOptionId # option.id
          /\ Called("selectOptionAsMain", selectedItem[1].id)
          /\ selectOptionAsMain(selectedItem[1].id, option.id)

\* the bin of an option card of the detail modal (line 1590)
PressDeleteOption ==
  /\ DetailVisible
  /\ \E k \in DOMAIN optionsOf(selectedItem[1]) :
       LET option == optionsOf(selectedItem[1])[k]
       IN /\ Called("deleteOption", selectedItem[1].id)
          /\ deleteOption(selectedItem[1].id, option.id)

\* the image button of the detail modal (line 1435) and a choice of its
\* alert: an image picked (1) or Remove Image (0)
PressImage ==
  \E uri \in {0, 1} :
    /\ DetailVisible
    /\ Called("updateItemImage", selectedItem[1].id)
    /\ updateItemImage(selectedItem[1].id, uri)

\* Save of the edit form of the detail modal (line 1470)
PressSaveEdit ==
  \E price \in SortPrices :
    /\ DetailVisible
    /\ Called("saveItemEdit", selectedItem[1].id)
    /\ saveItemEdit(1, price)

\* Delete of a list row, confirmed in the alert (lines 1217, 587)
PressDelete ==
  \E k \in DOMAIN sortedItems :
    /\ ListVisible
    /\ DidTo("confirmDelete", sortedItems[k].id)
    /\ confirmDelete(sortedItems[k].id)

\* Mark purchased / Unmark purchased of a list row (line 1214)
PressPurchased ==
  \E k \in DOMAIN sortedItems :
    /\ ListVisible
    /\ Called("togglePurchased", sortedItems[k].id)
    /\ togglePurchased(sortedItems[k].id)

\* the sort button of the footer (lines 1278-1280)
PressSort ==
  /\ ListVisible
  /\ sortMode' = nextSortMode(sortMode)
  /\ Did("setSortMode")
  /\ UNCHANGED <<items, remainingPoints, lastResetDate, hidePurchased,
                 selectedItem, isSortingFrozen, frozenItems, timers, stored,
                 today, nextId, loaded>>

\* the Include Purchased switch of the footer (lines 1289-1291)
FlipSwitch ==
  /\ ListVisible
  /\ Called("setHidePurchased", 0)
  /\ setHidePurchased(hidePurchased)

\* Save of the add-item modal (line 1386)
PressSave(price) ==
  /\ ListVisible
  /\ DidTo("saveNewItem", nextId)
  /\ saveNewItem(price)

\* a due timer runs
TimerFires ==
  /\ loaded
  /\ Did("unfreeze")
  /\ unfreezeTimeout

\* a list row is rendered (lines 1060-1065): its badge is computed from the
\* copy of the item the row is rendered from and from the clock
RenderRow ==
  \E k \in DOMAIN sortedItems :
    LET item == sortedItems[k]
    IN /\ ListVisible
       /\ last' = [NoOp EXCEPT !.op = "renderItem", !.id = item.id,
                                !.result = [weeklyPoints |-> getWeeklyPoints(item),
                                            trendingStatus |-> getTrendingStatus(item)]]
       /\ UNCHANGED <<items, remainingPoints, lastResetDate, hidePurchased,
                      sortMode, selectedItem, isSortingFrozen, frozenItems,
                      timers, stored, loaded, today, nextId, votes>>

\* the prices entered for the items added
Prices == {0, Infinity}

\* Save of the add-item modal with any of the prices
PressSaveAny == \E price \in Prices : PressSave(price)

\* the app is closed and started again: MainApp mounts anew with the useState
\* initialisers (lines 233-261), no timer of the old process is left, the
\* storage is what the old process wrote.  The record keeps the state the
\* old process held, which its last persist effect has saved.
Restart ==
  /\ loaded
  /\ items' = <<>>
  /\ remainingPoints' = MAX_DAILY_POINTS
  /\ lastResetDate' = getTodayKey
  /\ hidePurchased' = FALSE
  /\ sortMode' = "points"
  /\ selectedItem' = <<>>
  /\ isSortingFrozen' = FALSE
  /\ frozenItems' = <<>>
  /\ timers' = <<>>
  /\ loaded' = FALSE
  /\ last' = [NoOp EXCEPT !.op = "restart",
                          !.saved = <<[items |-> items,
                                       remainingPoints |-> remainingPoints,
                                       lastResetDate |-> lastResetDate]>>]
  /\ UNCHANGED <<stored, today, nextId, votes>>

\* the app comes to the foreground (lines 368-372)
AppActive == checkAndResetDailyPoints

\* addPoint and removePoint called with any id by any caller
CallAddPoint ==
  \E id \in 1..MaxItems :
    /\ loaded
    /\ VoteBound
    /\ Called("addPoint", id)
    /\ addPoint(id)

CallRemovePoint ==
  \E id \in 1..MaxItems :
    /\ loaded
    /\ VoteBound
    /\ Called("removePoint", id)
    /\ removePoint(id)

\* what happens besides the votes: start, foreground, items added without a
\* price and deleted, the sort button, the clock
Core ==
  \/ load
  \/ AppActive
  \/ PressDelete
  \/ PressSort
  \/ PressSave(0)
  \/ TimerFires
  \/ Tick
  \/ NextDay

\* the list as the user drives it
Next ==
  \/ PressUpvote
  \/ PressDownvote
  \/ Core

Spec == Init /\ [][Next]_vars

\* the handlers as any caller may drive them
NextCall ==
  \/ CallAddPoint
  \/ CallRemovePoint
  \/ Core

SpecCall == Init /\ [][NextCall]_vars

\* The badge of one item as the days pass.  The item was voted on over the
\* last ten days: its history holds at most MaxHistory entries, oldest
\* first, one per day, and the session was loaded today.
RECURSIVE sumAll(_)
sumAll(h) == IF h = <<>> THEN 0 ELSE Head(h).points + sumAll(Tail(h))

TrendHistories ==
  UNION {{h \in [1..n -> [date : TrendDates, points : TrendPoints]] :
            \A j \in 1..(n - 1) : h[j].date < h[j + 1].date} : n \in 0..MaxHistory}

InitTrend ==
  /\ \E h \in TrendHistories :
       items = <<[SeedItem EXCEPT !.pointHistory = h, !.dateAdded = -9,
                                  !.points = Max(0, sumAll(h))]>>
  /\ remainingPoints = MAX_DAILY_POINTS
  /\ today = 1
  /\ lastResetDate = getTodayKey
  /\ hidePurchased = FALSE
  /\ sortMode = "points"
  /\ selectedItem = <<>>
  /\ isSortingFrozen = FALSE
  /\ frozenItems = <<>>
  /\ timers = <<>>
  /\ stored = [items |-> items, remainingPoints |-> remainingPoints,
               lastResetDate |-> lastResetDate]
  /\ loaded = TRUE
  /\ nextId = 2
  /\ votes = 0
  /\ last = NoOp

NextTrend ==
  \/ RenderRow
  \/ NextDay
  \/ AppActive

SpecTrend == InitTrend /\ [][NextTrend]_vars

\* Sessions over a storage of any content: no text, a text that does not
\* parse, or a snapshot written by this build or by another one (the storage
\* key is shared by builds that differ in MAX_DAILY_POINTS, line 40), whose
\* remainingPoints is anything.
StoredBudgets == {JsonNull, -1, 0, StartBudget, MAX_DAILY_POINTS, MAX_DAILY_POINTS + 1}

AnyStores ==
  {NoSnapshot, Unparsable} \cup
  {[items |-> its, remainingPoints |-> rp, lastResetDate |-> d] :
     its \in {<<>>, <<SeedItem>>}, rp \in StoredBudgets, d \in {0, 1}}

InitLoad ==
  /\ items = <<>>
  /\ remainingPoints = MAX_DAILY_POINTS
  /\ today = 1
  /\ lastResetDate = getTodayKey
  /\ hidePurchased = FALSE
  /\ sortMode = "points"
  /\ selectedItem = <<>>
  /\ isSortingFrozen = FALSE
  /\ frozenItems = <<>>
  /\ timers = <<>>
  /\ stored \in AnyStores
  /\ loaded = FALSE
  /\ nextId = 2
  /\ votes = 0
  /\ last = NoOp

NextLoad ==
  \/ load
  \/ Restart
  \/ AppActive
  \/ NextDay
  \/ PressSaveAny
  \/ PressUpvote
  \/ PressDownvote
  \/ TimerFires
  \/ Tick

SpecLoad == InitLoad /\ [][NextLoad]_vars

\* The list under the three sort modes.  Two items, in either order, each
\* with a price of its own, with or without one option that has a price of
\* its own and is selected or not.

SortOptions(id) ==
  {<<>>} \cup
  {<< <<[id |-> id + 2, name |-> 1, price |-> q, imageUrl |-> 0]>> >> :
     q \in OptionPrices}

SortItems(id) ==
  {it \in {[SeedItem EXCEPT !.id = id, !.dateAdded = id, !.price = p,
                            !.points = pts,
                            !.pointHistory = IF pts = 0 THEN <<>>
                                             ELSE <<[date |-> 1, points |-> pts]>>,
                            !.options = o, !.selectedOptionId = sel] :
              p \in SortPrices, pts \in {0, 1}, o \in SortOptions(id),
              sel \in {0, id + 2}} :
     it.selectedOptionId = 0 \/ it.options # <<>>}

InitSort ==
  /\ \E a \in SortItems(1), b \in SortItems(2) : items \in {<<a, b>>, <<b, a>>}
  /\ remainingPoints = MAX_DAILY_POINTS
  /\ today = 1
  /\ lastResetDate = getTodayKey
  /\ hidePurchased = FALSE
  /\ sortMode = "points"
  /\ selectedItem = <<>>
  /\ isSortingFrozen = FALSE
  /\ frozenItems = <<>>
  /\ timers = <<>>
  /\ stored = stringify([items |-> items, remainingPoints |-> remainingPoints,
                         lastResetDate |-> lastResetDate])
  /\ loaded = TRUE
  /\ nextId = 5
  /\ votes = 0
  /\ last = NoOp

NextSort ==
  \/ PressSort
  \/ FlipSwitch

SpecSort == InitSort /\ [][NextSort]_vars

\* the detail modal: options, image, edit, opened from a list under votes
InitDetail == Init /\ stored = NoSnapshot

\* bound of the exploration: the votes cast on an item made by the add-item
\* form
MaxLedgerVotes == 4

\* votes over several days on an item made by the add-item form
NextLedger ==
  \/ load
  \/ PressSave(0)
  \/ PressUpvoteWithin(MaxLedgerVotes)
  \/ PressDownvoteWithin(MaxLedgerVotes)
  \/ NextDay
  \/ AppActive
  \/ TimerFires
  \/ Tick

SpecLedger == InitDetail /\ [][NextLedger]_vars

NextDetail ==
  \/ load
  \/ PressSave(0)
  \/ PressUpvoteWithin(MaxDetailVotes)
  \/ PressRow
  \/ PressBack
  \/ PressSaveOption
  \/ PressSelectOption
  \/ PressDeleteOption
  \/ PressImage
  \/ PressSaveEdit
  \/ TimerFires
  \/ Tick

SpecDetail == InitDetail /\ [][NextDetail]_vars

\* the list with its purchase marks, its switch and its deletions, under
\* votes
NextView ==
  \/ load
  \/ PressUpvote
  \/ PressPurchased
  \/ FlipSwitch
  \/ PressDelete
  \/ PressSave(0)
  \/ TimerFires
  \/ Tick
  \/ NextDay

SpecView == Init /\ [][NextView]_vars

\* the list with its votes and its timers.  Time does not stop and the
\* JavaScript timer queue runs every callback that is due: Tick and
\* TimerFires are taken whenever they stay enabled.
NextFreeze ==
  \/ load
  \/ PressUpvote
  \/ PressDownvote
  \/ PressSort
  \/ PressSave(0)
  \/ TimerFires
  \/ Tick

SpecFreeze ==
  Init /\ [][NextFreeze]_vars /\ WF_vars(Tick) /\ WF_vars(TimerFires)

----------------------------------------------------------------------------
\* Properties.  They read the step record: last.op and last.id name the
\* handler that produced the state, last.items and last.remainingPoints are
\* the state it was called in.

IsVote == last.op \in {"addPoint", "removePoint"}

\* the voted item was in the collection when the handler was called
PreHas == HasId(last.items, last.id)

PreItem == Find(last.items, last.id)

CurItem == Find(items, last.id)

\* a point history as a mapping from day key to delta
Dates(h) == {h[k].date : k \in DOMAIN h}

DeltaOn(h, d) ==
  IF d \in Dates(h) THEN h[CHOOSE k \in DOMAIN h : h[k].date = d].points ELSE 0

\* every item but the voted one is as it was
OthersKept ==
  /\ Ids(items) = Ids(last.items)
  /\ \A k \in DOMAIN items : items[k].id # last.id => items[k] = last.items[k]

\* C1: whatever addPoint, removePoint and checkAndResetDailyPoints calls are
\* made, remainingPoints stays in 0..MAX_DAILY_POINTS and every item's points
\* stay >= 0.
C1_BudgetAndPointsInRange ==
  /\ remainingPoints \in 0..MAX_DAILY_POINTS
  /\ \A k \in DOMAIN items : items[k].points >= 0

\* C1 witness: votes were cast, an item is back at 0 points, and a reset on
\* a new day then refilled a partly spent budget
C1_Witness ==
  /\ last.op = "checkAndResetDailyPoints"
  /\ last.remainingPoints < MAX_DAILY_POINTS
  /\ remainingPoints = MAX_DAILY_POINTS
  /\ votes >= 2
  /\ \E k \in DOMAIN items : items[k].points = 0

\* C2: addPoint called with remainingPoints = 0 changes neither the budget
\* nor any item; called with remainingPoints >= 1 on an item of the
\* collection it takes exactly one point of the budget and gives the item
\* one.  So from remainingPoints = k exactly k upvotes in a row succeed.
C2_ExhaustedUpvoteChangesNothing ==
  last.op = "addPoint" =>
    IF last.remainingPoints = 0
    THEN remainingPoints = 0 /\ items = last.items
    ELSE /\ remainingPoints = last.remainingPoints - 1
         /\ PreHas => CurItem.points = PreItem.points + 1

\* C2 witness: the budget of the stored snapshot spent on the stored item,
\* then one more upvote of it
C2_Witness ==
  /\ last.op = "addPoint"
  /\ last.remainingPoints = 0
  /\ PreHas
  /\ votes = StartBudget + 1
  /\ CurItem.points = SeedItem.points + StartBudget

\* C3: removePoint on an item of the collection whose points are 0 changes
\* nothing: not the items, not remainingPoints.
C3_ZeroPointDownvoteChangesNothing ==
  (last.op = "removePoint" /\ PreHas /\ PreItem.points = 0) =>
    (items = last.items /\ remainingPoints = last.remainingPoints)

\* C4: addPoint or removePoint with an id that is not in the collection
\* changes nothing: not the items, not remainingPoints.
C4_MissingItemVoteChangesNothing ==
  (IsVote /\ ~PreHas) =>
    (items = last.items /\ remainingPoints = last.remainingPoints)

\* C5: addPoint on an item of the collection with remainingPoints >= 1 takes
\* exactly 1 from remainingPoints, adds exactly 1 to the item's points and 1
\* to its history entry of today (created at 1 if absent), and changes no
\* other item, no other history entry and no other field of the item.
C5_SuccessfulUpvote ==
  (last.op = "addPoint" /\ PreHas /\ last.remainingPoints >= 1) =>
    LET h0 == PreItem.pointHistory
        h1 == CurItem.pointHistory
    IN /\ remainingPoints = last.remainingPoints - 1
       /\ OthersKept
       /\ CurItem = [PreItem EXCEPT !.points = @ + 1, !.pointHistory = h1]
       /\ Dates(h1) = Dates(h0) \cup {today}
       /\ Len(h1) = Cardinality(Dates(h1))
       /\ DeltaOn(h1, today) = DeltaOn(h0, today) + 1
       /\ \A d \in Dates(h0) \ {today} : DeltaOn(h1, d) = DeltaOn(h0, d)

\* C5 witness: an upvote that found today's entry and one that created it
C5_Witness ==
  /\ last.op = "addPoint"
  /\ PreHas
  /\ last.remainingPoints >= 1
  /\ today \in Dates(PreItem.pointHistory)
  /\ DeltaOn(CurItem.pointHistory, today) = 2

C7_DownvoteHistoryUnclamped ==
  (last.op = "removePoint" /\ PreHas /\ PreItem.points > 0) =>
    DeltaOn(CurItem.pointHistory, today)
      = DeltaOn(PreItem.pointHistory, today) - 1

\* C8: a vote is one transition of budget and item together: after a vote
\* the budget has changed only if an item has, an item has changed only if
\* the budget has (or the refund was absorbed by the cap), and the snapshot
\* handed to the save is that same state.
C8_VoteIsOneTransition ==
  /\ IsVote =>
       /\ remainingPoints # last.remainingPoints => items # last.items
       /\ items # last.items =>
            \/ remainingPoints # last.remainingPoints
            \/ last.op = "removePoint" /\ last.remainingPoints = MAX_DAILY_POINTS
  /\ loaded =>
       stored = [items |-> items, remainingPoints |-> remainingPoints,
                 lastResetDate |-> lastResetDate]

\* C9: under the points sort a vote never changes the order shown: the vote
\* that enters the freeze pins the order shown before it, and the votes cast
\* while frozen keep it (stated for a list that shows exactly the items of
\* the collection).
C9_FrozenOrderPinned ==
  (/\ IsVote
   /\ sortMode = "points"
   /\ {last.shown[k] : k \in DOMAIN last.shown} = {items[k].id : k \in DOMAIN items})
    => Ids(sortedItems) = last.shown

\* ms since the most recent vote under the points sort: that vote armed the
\* newest timer, which is still pending unless UnfreezeDelayMs have passed
MsSinceVote ==
  IF timers = <<>> THEN UnfreezeDelayMs
  ELSE UnfreezeDelayMs - timers[Len(timers)]

\* C10: the unfreeze timer is debounced: at most one is pending, and the
\* view never unfreezes less than UnfreezeDelayMs after the most recent vote.
C10_UnfreezeDebounced ==
  /\ Len(timers) <= 1
  /\ (last.op = "unfreeze" /\ last.frozen /\ ~isSortingFrozen) =>
       MsSinceVote >= UnfreezeDelayMs

\* C11: while the view is frozen the row of the item just voted on shows that
\* item's current points: the points rendered from the displayed copy equal
\* the points of the item in the collection.
C11_FrozenRowShowsLivePoints ==
  (IsVote /\ isSortingFrozen /\ sortMode = "points" /\ HasId(items, last.id)) =>
    \A k \in DOMAIN sortedItems :
      sortedItems[k].id = last.id => sortedItems[k].points = CurItem.points

\* the list a fresh sort of the live collection shows
freshSort == sortedItemsOf(items, hidePurchased, sortMode, FALSE, <<>>)

\* C12: every freeze ends.  While the view is frozen an unfreeze timer is
\* pending; once the cooldown of the latest vote has elapsed (no timer is
\* left) the view is not frozen and the list shown is a fresh sort of the
\* live collection, by non-increasing live points under the points sort;
\* and a frozen view always reaches that state.
C12_FreezeEnds ==
  /\ [](isSortingFrozen => timers # <<>>)
  /\ [](timers = <<>> =>
         /\ ~isSortingFrozen
         /\ sortedItems = freshSort
         /\ sortMode = "points" =>
              \A j, k \in DOMAIN sortedItems :
                j < k => /\ sortedItems[j].points >= sortedItems[k].points
                         /\ sortedItems[j] = Find(items, sortedItems[j].id))
  /\ (isSortingFrozen ~> (~isSortingFrozen /\ timers = <<>>))

\* C12 witness: the last pending timer has fired, and the fresh sort puts
\* the rows in another order than the frozen view showed
C12_Witness ==
  /\ last.op = "unfreeze"
  /\ last.frozen
  /\ ~isSortingFrozen
  /\ timers = <<>>
  /\ sortMode = "points"
  /\ Len(items) = 2
  /\ Ids(sortedItems) # Ids(sortDesc(frozenItems, sortMode))

\* C13: a vote cast under the date or the price sort arms no unfreeze timer
\* and does not enter the frozen state: a view that was not frozen before the
\* vote is not frozen after it.
C13_OtherSortsNeverFreeze ==
  (IsVote /\ sortMode # "points") =>
    /\ timers = last.timers
    /\ ~last.frozen => ~isSortingFrozen

\* C13 witness: a vote under the price sort that changed an item, with no
\* freeze before or after and no timer pending
C13_Witness ==
  /\ IsVote
  /\ sortMode = "price"
  /\ items # last.items
  /\ ~last.frozen
  /\ ~isSortingFrozen
  /\ timers = <<>>

\* the deltas of a history dated from..to, summed as they are
RECURSIVE sumWindow(_, _, _)
sumWindow(h, from, to) ==
  IF h = <<>> THEN 0
  ELSE (IF Head(h).date \in from..to THEN Head(h).points ELSE 0)
       + sumWindow(Tail(h), from, to)

\* C14: the weekly points of an item on day D are the sum of exactly the
\* history deltas dated D-6 .. D, unclamped (possibly negative): entries
\* dated D-7 or earlier count for nothing, an empty history gives 0.
C14_WeeklyWindowIsSevenDays ==
  last.op = "renderItem" =>
    last.result.weeklyPoints
      = sumWindow(Find(items, last.id).pointHistory, today - 6, today)

\* C15: the tier of a weekly sum w is hot when w >= 10, trending when
\* 5 <= w < 10 and none otherwise (every negative w included), and it is
\* computed from the history and the day of the moment of the read.
C15_TierOfWeeklyPoints ==
  last.op = "renderItem" =>
    LET w == last.result.weeklyPoints
        tier == last.result.trendingStatus
    IN /\ w = getWeeklyPoints(Find(items, last.id))
       /\ tier \in {"hot", "trending", "none"}
       /\ tier = "hot" <=> w >= 10
       /\ tier = "trending" <=> (5 <= w /\ w < 10)
       /\ tier = "none" <=> w < 5
       /\ w < 0 => tier = "none"

\* C15 witness: a badge read the day after the session started, at the upper
\* edge of the trending tier
C15_Witness ==
  /\ last.op = "renderItem"
  /\ today = 2
  /\ last.result.weeklyPoints = 9
  /\ last.result.trendingStatus = "trending"

IsCheck == last.op = "checkAndResetDailyPoints"

\* C16: checkAndResetDailyPoints on a day other than lastResetDate sets
\* remainingPoints to MAX_DAILY_POINTS and lastResetDate to that day, and
\* leaves the collection, every item's points and every history as they were.
C16_RolloverResetsBudgetOnly ==
  (IsCheck /\ last.lastResetDate # today) =>
    /\ remainingPoints = MAX_DAILY_POINTS
    /\ lastResetDate = today
    /\ items = last.items

\* C16 witness: a partly spent budget refilled on the next day, the voted
\* item keeping its points and its history
C16_Witness ==
  /\ IsCheck
  /\ last.lastResetDate # today
  /\ last.remainingPoints < MAX_DAILY_POINTS
  /\ remainingPoints = MAX_DAILY_POINTS
  /\ votes >= 1
  /\ \E k \in DOMAIN items :
       /\ items[k].points >= 2
       /\ Len(items[k].pointHistory) >= 2

\* C17: checkAndResetDailyPoints on the day lastResetDate names changes
\* nothing: a second call on the same day does not touch the budget the
\* votes cast since the first call have left, nor the date, nor the items.
C17_SameDayCheckIsNoOp ==
  (IsCheck /\ last.lastResetDate = today) =>
    /\ remainingPoints = last.remainingPoints
    /\ lastResetDate = last.lastResetDate
    /\ items = last.items

\* C17 witness: on the second day of the session (so a first call has reset
\* the budget that day) votes were cast and the call was made again
C17_Witness ==
  /\ IsCheck
  /\ today = 2
  /\ last.lastResetDate = today
  /\ last.remainingPoints < MAX_DAILY_POINTS
  /\ remainingPoints = last.remainingPoints
  /\ votes >= 1

\* C18: remainingPoints is in 0..MAX_DAILY_POINTS in every state of a
\* loaded session, whatever remainingPoints the snapshot read at load held.
C18_BudgetInRangeAfterLoad ==
  loaded => remainingPoints \in 0..MAX_DAILY_POINTS

IsLoad == last.op = "load"

\* the session before this load ended holding this state, and saved it
Saved == last.saved[1]

\* C19: a state that was saved and is loaded on the day its lastResetDate
\* names comes back as it was: the same items (points and histories
\* included), the same remainingPoints, the same lastResetDate.
C19_SaveLoadRoundTrip ==
  (IsLoad /\ last.saved # <<>> /\ Saved.lastResetDate = today) =>
    /\ items = Saved.items
    /\ remainingPoints = Saved.remainingPoints
    /\ lastResetDate = Saved.lastResetDate

C21_HiddenPurchasedNeverShown ==
  hidePurchased =>
    \A k \in DOMAIN sortedItems :
      HasId(items, sortedItems[k].id) =>
        ~Find(items, sortedItems[k].id).isPurchased

\* C23: datePurchased is present exactly when isPurchased is true, and a
\* purchase toggle flips the flag of its item, sets the date on the way to
\* true and clears it on the way to false, and changes nothing else: no
\* other field of the item, no other item.
C23_PurchaseDateIffPurchased ==
  /\ \A k \in DOMAIN items :
       items[k].isPurchased <=> items[k].datePurchased # 0
  /\ (last.op = "togglePurchased" /\ PreHas) =>
       /\ OthersKept
       /\ CurItem = [PreItem EXCEPT
                       !.isPurchased = ~PreItem.isPurchased,
                       !.datePurchased = IF PreItem.isPurchased THEN 0 ELSE today]

\* C23 witness: an item added in this session, marked purchased on one day
\* and unmarked on the next
C23_Witness ==
  /\ last.op = "togglePurchased"
  /\ last.id = 2
  /\ PreHas
  /\ PreItem.isPurchased
  /\ PreItem.datePurchased = 1
  /\ today = 2
  /\ ~CurItem.isPurchased
  /\ CurItem.datePurchased = 0

\* C29: the list shows only items of the collection: a deleted item is in
\* no row of any later state, frozen view included, so no button acts on a
\* deleted item.
C29_DeletedItemNeverShown ==
  \A k \in DOMAIN sortedItems : HasId(items, sortedItems[k].id)

\* C22: a view that is not frozen is ordered by non-increasing points under
\* the points sort, by non-increasing creation instant under the date sort,
\* and under the price sort by non-increasing displayed price: the price of
\* the selected option when selectedOptionId names one, else the item's own.
C22_SortedByDisplayedKey ==
  ~isSortingFrozen =>
    \A j, k \in DOMAIN sortedItems :
      j < k =>
        CASE sortMode = "points" ->
               sortedItems[j].points >= sortedItems[k].points
          [] sortMode = "date" ->
               sortedItems[j].dateAdded >= sortedItems[k].dateAdded
          [] OTHER ->
               getCurrentDisplayItem(sortedItems[j]).price
                 >= getCurrentDisplayItem(sortedItems[k]).price

\* the item of a list that carries an id
itemWithId(list, id) == list[CHOOSE k \in DOMAIN list : list[k].id = id]

\* the handler just run was one of the three option operations, on an item
\* that is in the collection
IsOptionOp ==
  /\ last.op \in {"addOptionToItem", "selectOptionAsMain", "deleteOption"}
  /\ HasId(last.items, last.id)
  /\ HasId(items, last.id)

\* C30: adding the first option to an item without options, its options
\* field absent or its option list empty, selects that option: afterwards
\* selectedOptionId is the id of the new option.
C30_FirstOptionSelected ==
  (IsOptionOp /\ last.op = "addOptionToItem"
     /\ optionsOf(itemWithId(last.items, last.id)) = <<>>) =>
    LET item == itemWithId(items, last.id)
    IN /\ Len(optionsOf(item)) = 1
       /\ item.selectedOptionId = optionsOf(item)[1].id

\* C24: after an add-option, a select-option of an id shown in the option
\* list, or a delete-option, the item's selectedOptionId is unset or the id
\* of one of its options; and when the delete removed the selected option,
\* the selection is the first remaining option, or unset when none remains.
C24_SelectionNamesAnOption ==
  IsOptionOp =>
    LET before == itemWithId(last.items, last.id)
        item == itemWithId(items, last.id)
    IN /\ item.selectedOptionId = 0 \/ item.selectedOptionId \in OptionIds(item)
       /\ (last.op = "deleteOption"
             /\ before.selectedOptionId \in OptionIds(before) \ OptionIds(item)) =>
            item.selectedOptionId =
              (IF optionsOf(item) = <<>> THEN 0 ELSE optionsOf(item)[1].id)

\* C28: purchase toggle, name or price edit, option add, select and delete,
\* image change or removal and the daily reset leave the points and the
\* pointHistory of every item as they were, also when the detail was opened
\* from a frozen list right after a vote.
C28_OnlyVotesChangeVotingData ==
  last.op \in {"togglePurchased", "saveItemEdit", "addOptionToItem",
               "selectOptionAsMain", "deleteOption", "updateItemImage",
               "checkAndResetDailyPoints"} =>
    /\ Ids(items) = Ids(last.items)
    /\ \A k \in DOMAIN items :
         /\ items[k].points = last.items[k].points
         /\ items[k].pointHistory = last.items[k].pointHistory

\* the daily budget the README documents: "3 points per day",
\* "remainingPoints: Daily points remaining (0-3)"
DocumentedDailyPoints == 3

\* C25: the daily budget is 3 points: remainingPoints lies in 0..3 in every
\* state of the running app, and it is 3 after a first start and after a
\* daily reset, at load or on foregrounding on a day other than lastResetDate.
C25_BudgetIsThree ==
  loaded =>
    /\ remainingPoints \in 0 .. DocumentedDailyPoints
    /\ (IsCheck /\ last.lastResetDate # today) =>
         remainingPoints = DocumentedDailyPoints
    /\ (IsLoad /\ last.raw.lastResetDate # today) =>
         remainingPoints = DocumentedDailyPoints

\* the budget left plus the points held by the items of a collection
budgetTotal(budget, list) == budget + sumAll(list)

\* C26: a vote on an item of the collection, with no day reset and no
\* deletion involved, never increases remainingPoints + the sum of all
\* items' points; a successful upvote and a successful downvote below the
\* cap keep the sum as it was, and a vote that changes no item changes
\* nothing.
C26_BudgetConserved ==
  (IsVote /\ HasId(last.items, last.id) /\ Ids(items) = Ids(last.items)
     /\ lastResetDate = last.lastResetDate) =>
    LET before == budgetTotal(last.remainingPoints, last.items)
        after == budgetTotal(remainingPoints, items)
    IN /\ after <= before
       /\ items = last.items => remainingPoints = last.remainingPoints
       /\ (last.op = "addPoint" /\ items # last.items) => after = before
       /\ (last.op = "removePoint" /\ items # last.items
             /\ last.remainingPoints < MAX_DAILY_POINTS) => after = before

\* C27: an item made by the add-item form, with 0 points and an empty
\* history, has after any votes over any days points equal to the sum of
\* the deltas of its pointHistory.
C27_PointsAreSumOfHistory ==
  \A k \in DOMAIN items :
    items[k].id # SeedItem.id =>
      items[k].points = sumAll(items[k].pointHistory)

====
